---- MODULE Spec2Model ----
(***************************************************************************)
(* Model of the X3F container parser of rawspeed:                          *)
(*   src/librawspeed/parsers/X3fParser.cpp   (X3fParser, section decoders) *)
(*   src/librawspeed/decoders/X3fDecoder.h   (record layouts, array sizes) *)
(*   src/librawspeed/decoders/X3fDecoder.cpp (X3fDecoder::isX3f)           *)
(*                                                                         *)
(* A uint32_t is modelled as the pair <<hi, lo>> of its 16-bit halves, so  *)
(* that all 2^32 values are representable and 32-bit wrap-around is kept.  *)
(* The input buffer is a size plus the bytes that are not zero.            *)
(***************************************************************************)
EXTENDS Integers, Sequences, FiniteSets, TLC

VARIABLES
    file,      \* the input buffer (mInput): its size and its non-zero bytes
    probe,     \* what X3fDecoder::isX3f answered for the buffer, once asked
    pc,        \* where the parse stands
    bs,        \* the byte reader of the parser: its position
    header,    \* what the header decoder did (the X3fHeader local of the constructor)
    dir_loc,   \* parseData's dir_loc
    dirSec,    \* parseData's dirSec: the directory header fields decoded so far
    i,         \* parseData's loop counter
    entryPos,  \* the positions the directory entry records were read from
    decoder,   \* the X3fDecoder that getDecoder is building
    result,    \* the decoder handed to the caller of getDecoder
    err        \* the exception that left the constructor or getDecoder

vars == <<file, probe, pc, bs, header, dir_loc, dirSec, i, entryPos, decoder, result, err>>

None == "none"

\* a uint32_t field that was not decoded
NoU32 == <<>>

NoError == [type |-> None, msg |-> ""]

NoHeader ==
    [id |-> NoU32, version |-> NoU32, pos |-> 0, status |-> None, msg |-> ""]

NoDirSec == [id |-> NoU32, version |-> NoU32, dirNum |-> NoU32]

\* no decoder; a decoder d is held as <<d>>
NoDecoder == <<>>

\* the byte reader before it is initialised
NoStream == [created |-> FALSE, pos |-> 0]

Stream(p) == [created |-> TRUE, pos |-> p]

(***************************************************************************)
(* Bounds of the model.                                                    *)
(***************************************************************************)
\* size of the well-formed files that are generated
FileSize == 600
\* number of directory entry records laid out in a generated file
MaxEntries == 2
\* room of a generated property section: entry records and UTF16 units
MaxPropEntries == 2
MaxPropChars == 6

(***************************************************************************)
(* uint32_t arithmetic on <<hi, lo>> pairs.                                *)
(***************************************************************************)
Half == 256 * 256

U32(n) == <<n \div Half, n % Half>>

U32Lt(a, b) == a[1] < b[1] \/ (a[1] = b[1] /\ a[2] < b[2])

U32Le(a, b) == a = b \/ U32Lt(a, b)

\* (a + b) mod 2^32
U32Add(a, b) ==
    LET lo == a[2] + b[2]
        hi == a[1] + b[1] + (lo \div Half)
    IN  <<hi % Half, lo % Half>>

\* the value of a uint32_t that is known to be below 2^31
U32Val(a) == a[1] * Half + a[2]

(***************************************************************************)
(* Identifiers and versions, X3fParser.cpp:46-77.                          *)
(***************************************************************************)
Tag(c0, c1, c2, c3) == <<c3 * 256 + c2, c1 * 256 + c0>>

\* the identifier with its characters in big-endian order
X3F_FOVb_Swapped == Tag(98, 86, 79, 70)

X3F_FOVb == Tag(70, 79, 86, 98)
X3F_SECd == Tag(83, 69, 67, 100)
X3F_PROP == Tag(80, 82, 79, 80)
X3F_SECp == Tag(83, 69, 67, 112)
X3F_IMAG == Tag(73, 77, 65, 71)
X3F_IMA2 == Tag(73, 77, 65, 50)
X3F_SECi == Tag(83, 69, 67, 105)
X3F_CAMF == Tag(67, 65, 77, 70)
X3F_SECc == Tag(83, 69, 67, 99)
X3F_SPPA == Tag(83, 80, 80, 65)

X3F_VERSION(MAJ, MIN) == <<MAJ, MIN>>
X3F_VERSION_2_0 == X3F_VERSION(2, 0)
X3F_VERSION_2_1 == X3F_VERSION(2, 1)
X3F_VERSION_2_2 == X3F_VERSION(2, 2)
X3F_VERSION_2_3 == X3F_VERSION(2, 3)
X3F_VERSION_3_0 == X3F_VERSION(3, 0)
X3F_VERSION_4_0 == X3F_VERSION(4, 0)
X3F_VERSION_4_1 == X3F_VERSION(4, 1)

\* X3fDecoder.h:45-50
SIZE_UNIQUE_IDENTIFIER == 16
SIZE_WHITE_BALANCE == 32
SIZE_COLOR_MODE == 32
NUM_EXT_DATA_2_1 == 32
NUM_EXT_DATA_3_0 == 64
NUM_EXT_DATA == NUM_EXT_DATA_3_0

(***************************************************************************)
(* The byte reader (io/ByteStream.h, io/Buffer.h): a position in the       *)
(* immutable buffer, every read and every seek checked against its size.   *)
(***************************************************************************)
getSize == file.size

Byte(p) == IF p \in DOMAIN file.bytes THEN file.bytes[p] ELSE 0

\* check(bytes) at position p: passes iff p + bytes <= size
check(p, n) == p + n <= getSize

\* setPosition(newPos) for a uint32_t newPos: passes iff newPos <= size
setPositionOk(u) == U32Le(u, U32(getSize))

\* Buffer::isValid(offset, count): (uint64_t)offset + count <= size
isValid(u, n) == n <= getSize /\ U32Le(u, U32(getSize - n))

\* the little-endian uint32_t stored at p
getU32(p) == <<Byte(p + 3) * 256 + Byte(p + 2), Byte(p + 1) * 256 + Byte(p)>>

\* the native (little-endian) UTF16 unit stored at p
getU16(p) == Byte(p + 1) * 256 + Byte(p)

getRemainSize(p) == getSize - p

IOE == "IOException"
XPE == "X3fParserException"

(***************************************************************************)
(* Input buffers.  A buffer is laid out from its end: the directory        *)
(* pointer in the last 4 bytes, before it the directory, the property      *)
(* section, the calibration section and the image section.                 *)
(***************************************************************************)
LE32(u) == <<u[2] % 256, u[2] \div 256, u[1] % 256, u[1] \div 256>>

LE16(c) == <<c % 256, c \div 256>>

RECURSIVE Flatten(_)
Flatten(ss) == IF ss = <<>> THEN <<>> ELSE Head(ss) \o Flatten(Tail(ss))

\* the bytes of a set of chunks <<offset, byte sequence>> that do not overlap
BytesOf(chunks, size) ==
    LET dom == UNION {c[1] .. (c[1] + Len(c[2]) - 1) : c \in chunks}
    IN  [p \in dom \cap (0 .. (size - 1)) |->
            LET c == CHOOSE c \in chunks : p \in c[1] .. (c[1] + Len(c[2]) - 1)
            IN  c[2][p - c[1] + 1]]

PtrOff(size) == size - 4
DirOff(size) == PtrOff(size) - (12 + 12 * MaxEntries)
PropOff(size) == DirOff(size) - (24 + 8 * MaxPropEntries + 2 * MaxPropChars)
CamfOff(size) == PropOff(size) - 20
ImgOff(size) == CamfOff(size) - 28
\* a second property section, before the image section
Prop2Off(size) == ImgOff(size) - (24 + 8 * MaxPropEntries + 2 * MaxPropChars)

HeaderChunk(sig, ver) ==
    <<0, LE32(sig) \o LE32(ver) \o [k \in 1 .. SIZE_UNIQUE_IDENTIFIER |-> k]>>

ImageChunk(size, sig) ==
    <<ImgOff(size),
      Flatten(<<LE32(sig), LE32(X3F_VERSION(2, 0)), LE32(U32(2)), LE32(U32(18)),
                LE32(U32(640)), LE32(U32(480)), LE32(U32(0))>>)>>

CamfChunk(size) ==
    <<CamfOff(size),
      Flatten(<<LE32(U32(2)), LE32(U32(11)), LE32(U32(12)), LE32(U32(13)),
                LE32(U32(14))>>)>>

\* a property section: its header fields, entry records and character data
PropChunk(size, p) ==
    <<PropOff(size),
      Flatten(<<LE32(p.id), LE32(p.version), LE32(p.num), LE32(p.format),
                LE32(U32(0)), LE32(U32(Len(p.chars)))>>)
      \o Flatten([k \in DOMAIN p.entries |->
                    LE32(p.entries[k][1]) \o LE32(p.entries[k][2])])
      \o Flatten([k \in DOMAIN p.chars |-> LE16(p.chars[k])])>>

\* a directory: header, then the entry records <<offset, length, type>>
DirChunk(size, sig, ver, num, ents) ==
    <<DirOff(size),
      LE32(sig) \o LE32(ver) \o LE32(num)
      \o Flatten([k \in DOMAIN ents |->
                    LE32(ents[k][1]) \o LE32(ents[k][2]) \o LE32(ents[k][3])])>>

PtrChunk(size, ptr) == <<PtrOff(size), LE32(ptr)>>

\* a property section at off, its declared length given by the section
PropSectionAt(off, p) ==
    <<off,
      Flatten(<<LE32(p.id), LE32(p.version), LE32(p.num), LE32(p.format),
                LE32(U32(0)), LE32(p.length)>>)
      \o Flatten([k \in DOMAIN p.entries |->
                    LE32(p.entries[k][1]) \o LE32(p.entries[k][2])])
      \o Flatten([k \in DOMAIN p.chars |-> LE16(p.chars[k])])>>

MkFile(size, sig, ver, ptr, dsig, dver, dnum, ents, prop) ==
    [size  |-> size,
     bytes |-> BytesOf({HeaderChunk(sig, ver), ImageChunk(size, X3F_SECi),
                        CamfChunk(size), PropChunk(size, prop),
                        DirChunk(size, dsig, dver, dnum, ents),
                        PtrChunk(size, ptr)}, size)]

\* a buffer with two property sections
MkPropFile(size, ents, a, b) ==
    [size  |-> size,
     bytes |-> BytesOf({HeaderChunk(X3F_FOVb, X3F_VERSION_2_0),
                        ImageChunk(size, X3F_SECi), CamfChunk(size),
                        PropSectionAt(PropOff(size), a),
                        PropSectionAt(Prop2Off(size), b),
                        DirChunk(size, X3F_SECd, X3F_VERSION_2_0, U32(Len(ents)), ents),
                        PtrChunk(size, U32(DirOff(size)))}, size)]

\* A buffer with room for one entry record more than the largest property
\* section the decoder accepts: the directory pointer, before it a directory
\* of one PROP entry, before it the property section of num entry records,
\* of which the first, the one at index `at` and the last are not zero.
BigSize == FileSize + 8 * (1000 + 1)
BigDirOff == BigSize - 4 - 24
BigPropOff(num) == BigDirOff - 12 - 8 * num - 24

MkBigFile(num, at) ==
    LET off == BigPropOff(num)
        rec(k, e) == <<off + 24 + 8 * (k - 1), LE32(e[1]) \o LE32(e[2])>>
    IN  [size  |-> BigSize,
         bytes |-> BytesOf({HeaderChunk(X3F_FOVb, X3F_VERSION_2_0),
                            <<off, Flatten(<<LE32(X3F_SECp), LE32(X3F_VERSION_2_0),
                                             LE32(U32(num)), LE32(U32(0)),
                                             LE32(U32(0)), LE32(U32(6))>>)>>,
                            rec(1, <<U32(0), U32(4)>>),
                            rec(at, <<U32(2), U32(4)>>),
                            rec(num, <<U32(0), U32(2)>>),
                            <<BigDirOff - 12,
                              Flatten(<<LE16(75), LE16(0), LE16(86), LE16(0),
                                        LE16(87), LE16(0)>>)>>,
                            <<BigDirOff,
                              Flatten(<<LE32(X3F_SECd), LE32(X3F_VERSION_2_0),
                                        LE32(U32(1)), LE32(U32(off)),
                                        LE32(U32(BigDirOff - off)), LE32(X3F_PROP)>>)>>,
                            <<BigSize - 4, LE32(U32(BigDirOff))>>}, BigSize)]

\* A buffer whose property section is the last thing before the directory
\* pointer, the directory standing before it: the value of its one property
\* starts an odd number of bytes before the end of the buffer.
TailDirOff == 296
TailPropOff(size) == size - 4 - 1 - 2 * 4 - 8 - 24

MkTailFile(size, units, pad) ==
    [size  |-> size,
     bytes |-> BytesOf({HeaderChunk(X3F_FOVb, X3F_VERSION_2_0),
                        <<TailDirOff,
                          Flatten(<<LE32(X3F_SECd), LE32(X3F_VERSION_2_0),
                                    LE32(U32(1)), LE32(U32(TailPropOff(size))),
                                    LE32(U32(size - 4 - TailPropOff(size))),
                                    LE32(X3F_PROP)>>)>>,
                        <<TailPropOff(size),
                          Flatten(<<LE32(X3F_SECp), LE32(X3F_VERSION_2_0),
                                    LE32(U32(1)), LE32(U32(0)), LE32(U32(0)),
                                    LE32(U32(4)), LE32(U32(0)), LE32(U32(2)),
                                    LE16(75), LE16(0), LE16(units[1]),
                                    LE16(units[2]), <<pad>>>>)>>,
                        <<size - 4, LE32(U32(TailDirOff))>>}, size)]

(***************************************************************************)
(* X3fSection::X3fSection, X3fParser.cpp:157-160: id and version.          *)
(***************************************************************************)
X3fSection(p) ==
    IF check(p, 8)
    THEN [ok |-> TRUE, id |-> getU32(p), version |-> getU32(p + 4), pos |-> p + 8]
    ELSE [ok |-> FALSE, id |-> NoU32, version |-> NoU32,
          pos |-> IF check(p, 4) THEN p + 4 ELSE p]

(***************************************************************************)
(* X3fHeader::X3fHeader, X3fParser.cpp:162-217.  The reads that follow the *)
(* signature check, in program order: each is the array element (or field) *)
(* it is stored to and the number of bytes it takes from the reader.       *)
(***************************************************************************)
\* the loop "for (i = 0; i <= last; ++i) arr[i] = <read of n bytes>"
Loop(arr, last, n) == [arr |-> arr, count |-> last + 1, n |-> n]

\* a field: one read of n bytes
Field(name, n) == [arr |-> name, count |-> 1, n |-> n]

\* the fixed fields read for every version
HeaderReads_NoVersionGate(version) ==
    <<Loop("unique_identifier", SIZE_UNIQUE_IDENTIFIER - 1, 1),
      Field("mark_bits", 4), Field("columns", 4), Field("rows", 4),
      Field("rotation", 4)>>

HeaderReads(version) ==
    <<Loop("unique_identifier", SIZE_UNIQUE_IDENTIFIER - 1, 1)>>
    \o (IF U32Lt(version, X3F_VERSION_4_0)
        THEN <<Field("mark_bits", 4), Field("columns", 4),
               Field("rows", 4), Field("rotation", 4)>>
             \o (IF U32Le(X3F_VERSION_2_1, version)
                 THEN LET num_ext_data ==
                              IF U32Le(X3F_VERSION_3_0, version)
                              THEN NUM_EXT_DATA_3_0 ELSE NUM_EXT_DATA_2_1
                      IN  <<Loop("white_balance", SIZE_WHITE_BALANCE - 1, 1)>>
                          \o (IF U32Le(X3F_VERSION_2_3, version)
                              THEN <<Loop("color_mode", SIZE_WHITE_BALANCE - 1, 1)>>
                              ELSE <<>>)
                          \o <<Loop("extended_types", num_ext_data, 1),
                               Loop("extended_data", num_ext_data - 1, 4)>>
                 ELSE <<>>)
        ELSE <<>>)

\* the declared length of the arrays of X3fHeader, X3fDecoder.h:55-68
ArrayLen(arr) ==
    CASE arr = "unique_identifier" -> SIZE_UNIQUE_IDENTIFIER
      [] arr = "white_balance"     -> SIZE_WHITE_BALANCE
      [] arr = "color_mode"        -> SIZE_COLOR_MODE
      [] arr = "extended_types"    -> NUM_EXT_DATA
      [] arr = "extended_data"     -> NUM_EXT_DATA
      [] OTHER                     -> 1

HeaderArrays ==
    {"unique_identifier", "white_balance", "color_mode", "extended_types",
     "extended_data"}

NothingWritten == [a \in HeaderArrays |-> -1]

Min(a, b) == IF a < b THEN a ELSE b

\* Runs the loops k, k+1, ... from position p.  A read that does not fit in
\* the buffer throws IOException and ends the run.  A store past the end of
\* its array is undefined behaviour: the build either performs it and goes on
\* (trap = FALSE) or stops the process at it (trap = TRUE).
RECURSIVE RunReads(_, _, _, _, _)
RunReads(p, reads, k, maxIdx, trap) ==
    IF k > Len(reads)
    THEN [pos |-> p, ok |-> TRUE, crashed |-> FALSE, maxIdx |-> maxIdx]
    ELSE LET r    == reads[k]
             fit  == Min(r.count, IF p <= getSize THEN (getSize - p) \div r.n ELSE 0)
             past == fit > ArrayLen(r.arr)
             done == IF trap /\ past THEN ArrayLen(r.arr) + 1 ELSE fit
             idx  == IF r.arr \in HeaderArrays /\ done > 0
                     THEN [maxIdx EXCEPT ![r.arr] = done - 1] ELSE maxIdx
         IN  IF trap /\ past
             THEN [pos |-> p + done * r.n, ok |-> FALSE, crashed |-> TRUE, maxIdx |-> idx]
             ELSE IF fit < r.count
             THEN [pos |-> p + done * r.n, ok |-> FALSE, crashed |-> FALSE, maxIdx |-> idx]
             ELSE RunReads(p + done * r.n, reads, k + 1, idx, trap)

X3fHeader(trap) ==
    LET sec == X3fSection(0)
    IN  IF ~sec.ok
        THEN [id |-> sec.id, version |-> sec.version, pos |-> sec.pos,
              status |-> IOE, msg |-> "Out of bounds access in ByteStream",
              maxIdx |-> NothingWritten]
        ELSE IF sec.id # X3F_FOVb
        THEN [id |-> sec.id, version |-> sec.version, pos |-> sec.pos,
              status |-> XPE, msg |-> "Not an X3f file (Signature)",
              maxIdx |-> NothingWritten]
        ELSE LET r == RunReads(sec.pos, HeaderReads(sec.version), 1, NothingWritten, trap)
             IN  [id |-> sec.id, version |-> sec.version, pos |-> r.pos,
                  status |-> IF r.crashed THEN "crashed"
                             ELSE IF r.ok THEN "ok" ELSE IOE,
                  msg |-> IF r.crashed \/ r.ok THEN ""
                          ELSE "Out of bounds access in ByteStream",
                  maxIdx |-> r.maxIdx]

(***************************************************************************)
(* X3fDecoder::isX3f, X3fDecoder.cpp:48-52: memcmp of the first four bytes *)
(* with 'F','O','V','b'; Buffer::getData throws on a shorter buffer.       *)
(***************************************************************************)
isX3f ==
    IF ~check(0, 4) THEN IOE
    ELSE IF <<Byte(0), Byte(1), Byte(2), Byte(3)>> = <<70, 79, 86, 98>>
    THEN "true" ELSE "false"

(***************************************************************************)
(* X3fParser::X3fParser, X3fParser.cpp:80-97.                              *)
(***************************************************************************)
\* the check without the extended data region
MinFileSize_FixedHeaderOnly == 232 - 128

MinFileSize == 104 + 128

X3fParser ==
    /\ pc = "new"
    /\ UNCHANGED <<file, probe, dir_loc, dirSec, i, entryPos, decoder, result>>
    /\ IF getSize < MinFileSize
       THEN /\ pc' = "failed"
            /\ err' = [type |-> XPE, msg |-> "X3F file too small"]
            /\ UNCHANGED <<bs, header>>
       ELSE \E trap \in BOOLEAN :
              LET h == X3fHeader(trap)
              IN  /\ header' = h
                  /\ bs' = Stream(h.pos)
                  /\ pc' = CASE h.status = "ok"      -> "constructed"
                             [] h.status = "crashed" -> "crashed"
                             [] OTHER                -> "failed"
                  /\ err' = CASE h.status = IOE ->
                                   [type |-> XPE, msg |-> "IO Error while reading header"]
                              [] h.status = XPE -> [type |-> XPE, msg |-> h.msg]
                              [] OTHER -> NoError

(***************************************************************************)
(* X3fDirectorySection::X3fDirectorySection, X3fParser.cpp:219-240.        *)
(***************************************************************************)
DirectoryIds == {X3F_SECd, X3F_SECc}

\* the entry count not checked
EmptyDirectory_Unchecked(dirNum) == FALSE

\* line 237
EmptyDirectory(dirNum) == U32Lt(dirNum, U32(1))

X3fDirectorySection(p) ==
    LET sec == X3fSection(p)
        rec(n) == [id |-> sec.id, version |-> sec.version, dirNum |-> n]
    IN  IF ~sec.ok
        THEN [status |-> IOE, msg |-> "Out of bounds access in ByteStream",
              sec |-> rec(NoU32), pos |-> sec.pos]
        ELSE IF sec.id \notin DirectoryIds
        THEN [status |-> XPE, msg |-> "Unknown X3F directory identifier",
              sec |-> rec(NoU32), pos |-> sec.pos]
        ELSE IF U32Lt(sec.version, X3F_VERSION_2_0)
        THEN [status |-> XPE, msg |-> "X3F version older than 2.0 is not supported",
              sec |-> rec(NoU32), pos |-> sec.pos]
        ELSE IF ~check(sec.pos, 4)
        THEN [status |-> IOE, msg |-> "Out of bounds access in ByteStream",
              sec |-> rec(NoU32), pos |-> sec.pos]
        ELSE IF EmptyDirectory(getU32(sec.pos))
        THEN [status |-> XPE, msg |-> "X3F directory is empty",
              sec |-> rec(getU32(sec.pos)), pos |-> sec.pos + 4]
        ELSE [status |-> "ok", msg |-> "",
              sec |-> rec(getU32(sec.pos)), pos |-> sec.pos + 4]

(***************************************************************************)
(* X3fDirectoryEntry::X3fDirectoryEntry, X3fParser.cpp:251-268: the record *)
(* at p, then the sub-section signature at its offset, then back.          *)
(***************************************************************************)
\* the record taken without the test against the end of the buffer
X3fDirectoryEntry_Unchecked(p) ==
    LET offset == getU32(p)
        old_pos == p + 12
    IN  IF ~setPositionOk(offset) \/ ~check(U32Val(offset), 4)
        THEN [ok |-> FALSE, pos |-> old_pos]
        ELSE [ok |-> TRUE, offset |-> offset, length |-> getU32(p + 4),
              type |-> getU32(p + 8), sectionID |-> getU32(U32Val(offset)),
              pos |-> old_pos]

X3fDirectoryEntry(p) ==
    IF ~check(p, 12)
    THEN [ok |-> FALSE, pos |-> p]
    ELSE LET offset == getU32(p)
             old_pos == p + 12
         IN  IF ~setPositionOk(offset) \/ ~check(U32Val(offset), 4)
             THEN [ok |-> FALSE, pos |-> old_pos]
             ELSE [ok |-> TRUE, offset |-> offset, length |-> getU32(p + 4),
                   type |-> getU32(p + 8), sectionID |-> getU32(U32Val(offset)),
                   pos |-> old_pos]

(***************************************************************************)
(* X3fImageData::X3fImageData, X3fParser.cpp:270-276, and X3fCamf::X3fCamf,*)
(* X3fParser.cpp:290-296, at position p.                                   *)
(***************************************************************************)
X3fImageData(p) ==
    IF ~check(p, 28)
    THEN [ok |-> FALSE]
    ELSE [ok |-> TRUE,
          val |-> [id |-> getU32(p), version |-> getU32(p + 4),
                   type |-> getU32(p + 8), format |-> getU32(p + 12),
                   width |-> getU32(p + 16), height |-> getU32(p + 20),
                   dataSize |-> getU32(p + 24)]]

X3fCamf(p) ==
    IF ~check(p, 20)
    THEN [ok |-> FALSE]
    ELSE [ok |-> TRUE,
          val |-> [type |-> getU32(p),
                   tN |-> <<getU32(p + 4), getU32(p + 8), getU32(p + 12),
                            getU32(p + 16)>>]]

(***************************************************************************)
(* ConvertUTF16toUTF8, X3fParser.cpp:348-419: the UTF16 units source, a    *)
(* target of cap bytes.                                                    *)
(***************************************************************************)
UNI_REPLACEMENT_CHAR == 65533
UNI_SUR_HIGH_START == 55296
UNI_SUR_HIGH_END == 56319
UNI_SUR_LOW_START == 56320
UNI_SUR_LOW_END == 57343
halfShift == 10
halfBase == 65536

firstByteMark == <<0, 192, 224, 240>>

\* the bytes after the first written without their mark
Utf8_Unmarked(ch, bytesToWrite) ==
    [k \in 1 .. bytesToWrite |->
        IF k = 1
        THEN (ch \div 64 ^ (bytesToWrite - 1)) + firstByteMark[bytesToWrite]
        ELSE (ch \div 64 ^ (bytesToWrite - k)) % 64]

\* the bytesToWrite bytes written for ch, X3fParser.cpp:405-413
Utf8(ch, bytesToWrite) ==
    [k \in 1 .. bytesToWrite |->
        IF k = 1
        THEN (ch \div 64 ^ (bytesToWrite - 1)) + firstByteMark[bytesToWrite]
        ELSE 128 + ((ch \div 64 ^ (bytesToWrite - k)) % 64)]

RECURSIVE ConvertFrom(_, _, _, _)
ConvertFrom(source, k, target, cap) ==
    IF k > Len(source)
    THEN [ok |-> TRUE, out |-> target]
    ELSE LET c1   == source[k]
             high == c1 >= UNI_SUR_HIGH_START /\ c1 <= UNI_SUR_HIGH_END
             more == k + 1 <= Len(source)
             pair == high /\ more /\ source[k + 1] >= UNI_SUR_LOW_START
                          /\ source[k + 1] <= UNI_SUR_LOW_END
             ch0  == IF pair
                     THEN (c1 - UNI_SUR_HIGH_START) * 2 ^ halfShift
                          + (source[k + 1] - UNI_SUR_LOW_START) + halfBase
                     ELSE c1
             bytesToWrite == IF ch0 < 128 THEN 1
                             ELSE IF ch0 < 2048 THEN 2
                             ELSE IF ch0 < 65536 THEN 3
                             ELSE IF ch0 < 1114112 THEN 4
                             ELSE 3
             ch   == IF ch0 < 1114112 THEN ch0 ELSE UNI_REPLACEMENT_CHAR
         IN  IF high /\ ~more
             THEN [ok |-> FALSE, out |-> target]
             ELSE IF Len(target) + bytesToWrite > cap
             THEN [ok |-> FALSE, out |-> target]
             ELSE ConvertFrom(source, IF pair THEN k + 2 ELSE k + 1,
                              target \o Utf8(ch, bytesToWrite), cap)

ConvertUTF16toUTF8(source, cap) == ConvertFrom(source, 1, <<>>, cap)

\* std::string(const char*): the bytes before the first zero byte
CString(bytes) ==
    LET z == {k \in DOMAIN bytes : bytes[k] = 0}
    IN  IF z = {} THEN bytes
        ELSE SubSeq(bytes, 1, (CHOOSE k \in z : \A j \in z : k <= j) - 1)

(***************************************************************************)
(* X3fPropertyCollection::getString, X3fParser.cpp:421-443, at position p. *)
(***************************************************************************)
getString(p) ==
    LET max_len == getRemainSize(p) \div 2
        start(j) == getU16(p + 2 * j)
        \* the scan goes on while src_end == start, so it ends at the first
        \* zero unit of index >= 1
        zeros == {j \in 1 .. (max_len - 1) : start(j) = 0}
    IN  IF zeros = {}
        THEN <<>>
        ELSE LET z == CHOOSE j \in zeros : \A k \in zeros : j <= k
                 n == z + 1
                 c == ConvertUTF16toUTF8([j \in 1 .. z |-> start(j - 1)], n * 4 - 1)
             IN  IF c.ok THEN CString(c.out) ELSE <<>>

(***************************************************************************)
(* X3fPropertyList::X3fPropertyList, X3fParser.cpp:278-283.                *)
(***************************************************************************)
\* the format code taken from the reserved field
X3fPropertyList_FormatMisread(p) ==
    IF ~check(p, 24)
    THEN [ok |-> FALSE]
    ELSE [ok |-> TRUE, id |-> getU32(p), version |-> getU32(p + 4),
          num |-> getU32(p + 8), format |-> getU32(p + 16),
          reserved |-> getU32(p + 12), length |-> getU32(p + 20), pos |-> p + 24]

X3fPropertyList(p) ==
    IF ~check(p, 24)
    THEN [ok |-> FALSE]
    ELSE [ok |-> TRUE, id |-> getU32(p), version |-> getU32(p + 4),
          num |-> getU32(p + 8), format |-> getU32(p + 12),
          reserved |-> getU32(p + 16), length |-> getU32(p + 20), pos |-> p + 24]

(***************************************************************************)
(* X3fPropertyCollection::addProperties, X3fParser.cpp:445-484.            *)
(***************************************************************************)
\* a section of 1000 properties refused
MaxProperties_Inclusive == 1000 - 1

MaxProperties == 1000

\* a name that is in the map keeps its value
Store_KeepFirst(props, key, val) ==
    [k \in DOMAIN props \cup {key} |-> IF k \in DOMAIN props THEN props[k] ELSE val]

\* props[key] = val
Store(props, key, val) ==
    [k \in DOMAIN props \cup {key} |-> IF k = key THEN val ELSE props[k]]

\* key_off * 2 + data_start, in uint32_t
StringPos(off, data_start) == U32Add(U32Add(off, off), U32(data_start))

\* the strings looked up without the test of line 472: the seek throws
PropertyEntry_Unguarded(props, p, data_start) ==
    IF ~check(p, 8)
    THEN [status |-> IOE, msg |-> "Out of bounds access in ByteStream", props |-> props]
    ELSE LET key_pos == StringPos(getU32(p), data_start)
             val_pos == StringPos(getU32(p + 4), data_start)
         IN  IF setPositionOk(key_pos) /\ setPositionOk(val_pos)
             THEN [status |-> "ok", msg |-> "",
                   props  |-> Store(props, getString(U32Val(key_pos)),
                                    getString(U32Val(val_pos)))]
             ELSE [status |-> IOE, msg |-> "Out of bounds access in ByteStream",
                   props |-> props]

\* one iteration of the loop, lines 468-482, the reader at p
PropertyEntry(props, p, data_start) ==
    IF ~check(p, 8)
    THEN [status |-> IOE, msg |-> "Out of bounds access in ByteStream", props |-> props]
    ELSE LET key_pos == StringPos(getU32(p), data_start)
             val_pos == StringPos(getU32(p + 4), data_start)
         IN  [status |-> "ok", msg |-> "",
              props  |-> IF isValid(key_pos, 2) /\ isValid(val_pos, 2)
                         THEN Store(props, getString(U32Val(key_pos)),
                                    getString(U32Val(val_pos)))
                         ELSE props]

\* The iterations k, k+1, ..., num-1 of the loop, the reader at p: the
\* iterations before mid, then, unless one of them threw, the others.  Every
\* iteration leaves the reader at old_pos, 8 bytes after where it found it.
RECURSIVE PropertyLoop(_, _, _, _, _)
PropertyLoop(props, p, k, num, data_start) ==
    IF k >= num
    THEN [status |-> "ok", msg |-> "", props |-> props]
    ELSE IF k + 1 = num
    THEN PropertyEntry(props, p, data_start)
    ELSE LET mid   == k + (num - k) \div 2
             first == PropertyLoop(props, p, k, mid, data_start)
         IN  IF first.status # "ok"
             THEN first
             ELSE PropertyLoop(first.props, p + 8 * (mid - k), mid, num, data_start)

addProperties(props, offset) ==
    LET pl == X3fPropertyList(offset)
    IN  IF ~pl.ok
        THEN [status |-> IOE, msg |-> "Out of bounds access in ByteStream", props |-> props]
        ELSE IF pl.id # X3F_SECp
        THEN [status |-> XPE, msg |-> "Unknown Property signature", props |-> props]
        ELSE IF U32Lt(pl.version, X3F_VERSION_2_0)
        THEN [status |-> XPE, msg |-> "File version too old (properties)", props |-> props]
        ELSE IF U32Lt(pl.num, U32(1))
        THEN [status |-> "ok", msg |-> "", props |-> props]
        ELSE IF pl.format # U32(0)
        THEN [status |-> XPE, msg |-> "Unknown property character encoding", props |-> props]
        ELSE IF U32Lt(U32(MaxProperties), pl.num)
        THEN [status |-> XPE, msg |-> "Unreasonable number of properties", props |-> props]
        ELSE PropertyLoop(props, pl.pos, 0, U32Val(pl.num),
                          pl.pos + U32Val(pl.num) * 8)

(***************************************************************************)
(* X3fParser::getDecoder, X3fParser.cpp:99-110, and X3fParser::parseData,  *)
(* X3fParser.cpp:112-155, in steps: the directory locator, the directory   *)
(* with its header, one step per iteration of the entry loop, the return.  *)
(***************************************************************************)
NewDecoder == [images |-> <<>>, props |-> <<>>, camf |-> <<>>]

\* the decoder built so far handed out although the parse failed
Thrown_Leaked(d) == d

\* what the caller of getDecoder holds when an exception leaves it: the
\* unique_ptr is destroyed while the exception propagates
Thrown(d) == NoDecoder

\* an exception of the given type leaves getDecoder, which had built d
Throw(type, msg, d) ==
    /\ pc' = "failed"
    /\ err' = [type |-> type, msg |-> msg]
    /\ decoder' = <<d>>
    /\ result' = Thrown(<<d>>)

\* the pointer looked for at the start of the last 8 bytes
DirPointerPos_OffByFour == getSize - 8

\* where the directory pointer is stored, line 114
DirPointerPos == getSize - 4

\* lines 100 and 114-120: the decoder is made, the directory is located and
\* its header is decoded
LocateDirectory ==
    /\ pc = "constructed"
    /\ UNCHANGED <<file, probe, header, entryPos>>
    /\ LET loc == getU32(DirPointerPos)
       IN  /\ dir_loc' = loc
           /\ IF ~setPositionOk(loc)
              THEN /\ bs' = Stream(getSize)
                   /\ Throw(IOE, "Out of bounds access in ByteStream", NewDecoder)
                   /\ UNCHANGED <<dirSec, i>>
              ELSE LET d == X3fDirectorySection(U32Val(loc))
                   IN  /\ dirSec' = d.sec
                       /\ bs' = Stream(d.pos)
                       /\ IF d.status = "ok"
                          THEN /\ pc' = "walk"
                               /\ i' = 0
                               /\ decoder' = <<NewDecoder>>
                               /\ UNCHANGED <<result, err>>
                          ELSE /\ Throw(d.status, d.msg, NewDecoder)
                               /\ UNCHANGED i

\* IMA2 forgotten
IsImageType_OnlyIMAG(type) == type = X3F_IMAG

\* the types of the image entries, lines 133-134
IsImageType(type) == type \in {X3F_IMAG, X3F_IMA2}

\* an entry of an unknown type refused
Unrecognized_Refused(d) ==
    [status |-> XPE, msg |-> "Unknown X3F directory entry type", decoder |-> d]

\* the default branch of the switch, lines 148-150: nothing is done
Unrecognized(d) == [status |-> "ok", msg |-> "", decoder |-> d]

\* the section decoder chosen by the type of the entry, lines 132-151
Dispatch(d, dir) ==
    CASE IsImageType(dir.type) ->
            LET img == X3fImageData(U32Val(dir.offset))
            IN  IF img.ok
                THEN [status |-> "ok", msg |-> "",
                      decoder |-> [d EXCEPT !.images = Append(@, img.val)]]
                ELSE [status |-> IOE, msg |-> "Out of bounds access in ByteStream",
                      decoder |-> d]
      [] dir.type = X3F_PROP ->
            LET r == addProperties(d.props, U32Val(dir.offset))
            IN  [status |-> r.status, msg |-> r.msg,
                 decoder |-> [d EXCEPT !.props = r.props]]
      [] dir.type = X3F_CAMF ->
            LET c == X3fCamf(U32Val(dir.offset))
            IN  IF c.ok
                THEN [status |-> "ok", msg |-> "", decoder |-> [d EXCEPT !.camf = <<c.val>>]]
                ELSE [status |-> IOE, msg |-> "Out of bounds access in ByteStream",
                      decoder |-> d]
      [] OTHER -> Unrecognized(d)

\* the reader left where the section decoder was started
Restore_Skipped(old_pos, reached) == reached

\* where the reader stands when the iteration ends, line 153
Restore(old_pos, reached) == old_pos

\* one iteration of the loop, lines 123-154
VisitEntry ==
    /\ pc = "walk"
    /\ U32Lt(U32(i), dirSec.dirNum)
    /\ UNCHANGED <<file, probe, header, dir_loc, dirSec>>
    /\ entryPos' = Append(entryPos, bs.pos)
    /\ LET dir == X3fDirectoryEntry(bs.pos)
       IN  IF ~dir.ok
           THEN /\ bs' = Stream(dir.pos)
                /\ Throw(IOE, "Out of bounds access in ByteStream", decoder[1])
                /\ UNCHANGED i
           ELSE LET r == Dispatch(decoder[1], dir)
                IN  IF r.status = "ok"
                    THEN /\ decoder' = <<r.decoder>>
                         /\ bs' = Stream(Restore(dir.pos, U32Val(dir.offset)))
                         /\ i' = i + 1
                         /\ UNCHANGED <<pc, result, err>>
                    ELSE /\ bs' = Stream(U32Val(dir.offset))
                         /\ Throw(r.status, r.msg, r.decoder)
                         /\ UNCHANGED i

\* line 109
Return ==
    /\ pc = "walk"
    /\ ~U32Lt(U32(i), dirSec.dirNum)
    /\ pc' = "done"
    /\ result' = decoder
    /\ UNCHANGED <<file, probe, bs, header, dir_loc, dirSec, i, entryPos, decoder, err>>

\* X3fDecoder::isX3f asked about the buffer
IsX3f ==
    /\ pc = "new"
    /\ probe = None
    /\ probe' = isX3f
    /\ UNCHANGED <<file, pc, bs, header, dir_loc, dirSec, i, entryPos, decoder, result, err>>

(***************************************************************************)
(* The buffers the parser is run on.                                       *)
(***************************************************************************)
Signatures == {X3F_FOVb, Tag(98, 86, 79, 70), Tag(70, 79, 86, 66), X3F_SECd}

Versions ==
    {X3F_VERSION(1, 0), X3F_VERSION_2_0, X3F_VERSION_2_1, X3F_VERSION_2_2,
     X3F_VERSION_2_3, X3F_VERSION_3_0, X3F_VERSION(3, 65535), X3F_VERSION_4_0,
     X3F_VERSION_4_1, X3F_VERSION(65535, 65535)}

\* K -> V, then K -> W
Chars == <<75, 0, 86, 0, 87, 0>>

PropOk ==
    [id |-> X3F_SECp, version |-> X3F_VERSION_2_0, num |-> U32(2), format |-> U32(0),
     entries |-> <<<<U32(0), U32(2)>>, <<U32(0), U32(4)>>>>, chars |-> Chars]

PropVariants ==
    {PropOk,
     [PropOk EXCEPT !.id = X3F_SECi],
     [PropOk EXCEPT !.num = U32(0)],
     [PropOk EXCEPT !.format = U32(1)],
     [PropOk EXCEPT !.entries = <<<<U32(0), U32(2)>>, <<U32(0), U32(FileSize)>>>>]}

\* directory entry records <<offset, length, type>> for a buffer of the size
EntryChoices(size) ==
    {<<U32(ImgOff(size)), U32(28), X3F_IMAG>>,
     <<U32(ImgOff(size)), U32(28), X3F_IMA2>>,
     <<U32(CamfOff(size)), U32(28), X3F_IMAG>>,
     <<U32(size - 8), U32(28), X3F_IMAG>>,
     <<U32(PropOff(size)), U32(DirOff(size) - PropOff(size)), X3F_PROP>>,
     <<U32(ImgOff(size)), U32(28), X3F_PROP>>,
     <<U32(CamfOff(size)), U32(20), X3F_CAMF>>,
     <<U32(ImgOff(size)), U32(28), X3F_SPPA>>,
     <<U32(size - 4), U32(4), X3F_SPPA>>,
     <<U32(size - 3), U32(0), X3F_SPPA>>,
     <<U32(size), U32(0), U32(0)>>,
     <<<<65535, 65535>>, <<65535, 65535>>, X3F_SECd>>}

EntryLists(size) == UNION {[1 .. n -> EntryChoices(size)] : n \in 1 .. MaxEntries}

BaseEntries(size) == [k \in 1 .. MaxEntries |-> <<U32(ImgOff(size)), U32(28), X3F_IMAG>>]

\* shorter than the smallest header
SmallFiles ==
    {[size |-> n, bytes |-> BytesOf({HeaderChunk(sig, X3F_VERSION_2_0)}, n)] :
        n \in {0, 3, 4, 8, 104, 231}, sig \in Signatures}

\* every signature and version, in buffers around the header sizes
HeaderFiles ==
    {MkFile(n, sig, ver, U32(DirOff(n)), X3F_SECd, X3F_VERSION_2_0, U32(1),
            BaseEntries(n), PropOk) :
        n \in {232, 233, 264, 265, FileSize},
        sig \in Signatures, ver \in Versions}

\* every directory pointer and directory header
DirectoryFiles ==
    {MkFile(FileSize, X3F_FOVb, ver, ptr, dsig, dver, dnum,
            BaseEntries(FileSize), PropOk) :
        ver \in {X3F_VERSION_2_0, X3F_VERSION_4_1},
        ptr \in {U32(DirOff(FileSize)), U32(0), U32(FileSize - 4), U32(FileSize),
                 U32(FileSize + 1), <<32768, 0>>, <<65535, 65535>>},
        dsig \in {X3F_SECd, X3F_SECc, X3F_SECi, U32(0)},
        dver \in {X3F_VERSION(1, 65535), X3F_VERSION_2_0, X3F_VERSION_3_0},
        dnum \in {U32(0), U32(1), U32(MaxEntries), U32(MaxEntries + 1),
                  <<65535, 65535>>}}

\* the property sections a list of entries is met with: every one when the
\* list has an entry for the section, the good one when no entry leads to it
PropChoices(ents) ==
    IF \E k \in DOMAIN ents : ents[k][1] = U32(PropOff(FileSize)) /\ ents[k][3] = X3F_PROP
    THEN PropVariants
    ELSE {PropOk}

\* every list of directory entries, over the property sections
EntryFiles ==
    UNION {{MkFile(FileSize, X3F_FOVb, X3F_VERSION_2_0, U32(DirOff(FileSize)),
                   X3F_SECd, X3F_VERSION_2_0, U32(Len(ents)), ents, prop) :
               prop \in PropChoices(ents)} : ents \in EntryLists(FileSize)}

\* the second property section of the buffers below: K -> X, L -> X
PropB ==
    [id |-> X3F_SECp, version |-> X3F_VERSION_2_0, num |-> U32(2), format |-> U32(0),
     length |-> U32(6), entries |-> <<<<U32(0), U32(2)>>, <<U32(4), U32(2)>>>>,
     chars |-> <<75, 0, 88, 0, 76, 0>>]

\* the first property section: K -> V, then K -> W
PropA ==
    [id |-> X3F_SECp, version |-> X3F_VERSION_2_0, num |-> U32(2), format |-> U32(0),
     length |-> U32(6), entries |-> <<<<U32(0), U32(2)>>, <<U32(0), U32(4)>>>>,
     chars |-> Chars]

\* every section header: signature, version, property count, format code
HeaderSections ==
    {[PropA EXCEPT !.id = id, !.version = ver, !.num = num, !.format = fmt] :
        id \in {X3F_SECp, X3F_SECi},
        ver \in {X3F_VERSION(1, 65535), X3F_VERSION_2_0, X3F_VERSION_3_0},
        num \in {U32(0), U32(1), U32(2), U32(3), U32(1000), U32(1001), <<1, 0>>,
                 <<65535, 65535>>},
        fmt \in {U32(0), U32(1), <<1, 0>>, <<65535, 65535>>}}

\* the number of units between dataStart of the first section and the end
\* of a buffer of FileSize bytes
UnitsToEnd == (FileSize - (PropOff(FileSize) + 24 + 8 * 2)) \div 2

\* name and value offsets inside the character data, beyond its declared
\* length, at and beyond the end of the buffer, and beyond 2^31
StringOffsets ==
    {U32(0), U32(2), U32(4), U32(6), U32(UnitsToEnd - 1), U32(UnitsToEnd),
     U32(FileSize), <<32768, 0>>, <<32768, 2>>, <<65535, 65535>>}

EntrySections ==
    {[PropA EXCEPT !.entries = <<<<U32(0), U32(2)>>, <<k, v>>>>, !.length = len] :
        k \in StringOffsets, v \in StringOffsets, len \in {U32(2), U32(6)}}
    \cup {[PropA EXCEPT !.entries = <<<<k, U32(4)>>, <<U32(0), U32(2)>>>>] :
             k \in StringOffsets}

\* UTF16 units of one, two and three UTF8 bytes, a high and a low surrogate
UtfUnits == {65, 233, 8364, 55357, 56832}

\* the units at the borders of the ranges
BorderStrings ==
    {<<127, 128, 2047>>, <<2048, 55295, 65535>>, <<55296, 56320>>,
     <<56319, 57343>>, <<57344, 56319, 56320>>, <<56320, 55296, 65>>}

UtfStrings ==
    BorderStrings \cup UNION {[1 .. n -> UtfUnits] : n \in 1 .. (MaxPropChars - 3)}

\* K -> the string, and the string -> K
StringSections ==
    {[PropA EXCEPT !.entries = <<<<U32(0), U32(2)>>, <<U32(2), U32(0)>>>>,
                   !.length = U32(Len(s) + 3),
                   !.chars = <<75, 0>> \o s \o <<0>>] : s \in UtfStrings}

\* the directory of a buffer with the first property section alone
AloneEntries == <<<<U32(PropOff(FileSize)), U32(52), X3F_PROP>>>>

\* the property sections, met alone, before and after a second section; the
\* sections that differ in their strings only, met alone
PropertyFiles ==
    {MkPropFile(FileSize, ents, a, PropB) :
        ents \in {AloneEntries,
                  <<<<U32(PropOff(FileSize)), U32(52), X3F_PROP>>,
                    <<U32(Prop2Off(FileSize)), U32(52), X3F_PROP>>>>,
                  <<<<U32(Prop2Off(FileSize)), U32(52), X3F_PROP>>,
                    <<U32(PropOff(FileSize)), U32(52), X3F_PROP>>>>},
        a \in HeaderSections \cup EntrySections}
    \cup {MkPropFile(FileSize, AloneEntries, a, PropB) : a \in StringSections}

\* the largest accepted property section and the smallest refused one
BigFiles ==
    {MkBigFile(num, at) : num \in {1000 - 1, 1000, 1000 + 1}, at \in {2, 1000 - 1}}

\* values that the end of the buffer cuts off
TailFiles ==
    {MkTailFile(FileSize, units, pad) :
        units \in {<<86, 87>>, <<86, 0>>, <<233, 55357>>}, pad \in {88, 0}}

\* entries of every decoded type whose offset points at the directory, at their
\* own record and at the directory pointer
BackwardEntries(size) ==
    {<<U32(off), U32(12), type>> :
        off \in {DirOff(size), DirOff(size) + 12, PtrOff(size)},
        type \in {X3F_IMAG, X3F_PROP, X3F_CAMF}}

BackwardFiles ==
    {MkFile(FileSize, X3F_FOVb, X3F_VERSION_2_0, U32(DirOff(FileSize)), X3F_SECd,
            X3F_VERSION_2_0, dnum, ents, PropOk) :
        ents \in [1 .. MaxEntries -> BackwardEntries(FileSize)],
        dnum \in {U32(MaxEntries), <<65535, 65535>>}}

Files ==
    SmallFiles \cup HeaderFiles \cup DirectoryFiles \cup EntryFiles
    \cup PropertyFiles \cup BigFiles \cup TailFiles \cup BackwardFiles

Init ==
    /\ file \in Files
    /\ probe = None
    /\ pc = "new"
    /\ bs = NoStream
    /\ header = NoHeader
    /\ dir_loc = NoU32
    /\ dirSec = NoDirSec
    /\ i = 0
    /\ entryPos = <<>>
    /\ decoder = NoDecoder
    /\ result = NoDecoder
    /\ err = NoError

Next ==
    \/ IsX3f
    \/ X3fParser
    \/ LocateDirectory
    \/ VisitEntry
    \/ Return

Spec == Init /\ [][Next]_vars

\* what every step of getDecoder does to pc and i: LocateDirectory leaves
\* "constructed", VisitEntry counts i up or fails, Return ends the walk
GetDecoderStep ==
    /\ pc \in {"constructed", "walk"}
    /\ pc' \in {"walk", "done", "failed"}
    /\ i' \in {i, i + 1}

\* getDecoder runs on until it returns or throws: the parser is sequential
\* code that nothing suspends
LiveSpec == Spec /\ WF_<<pc, i>>(GetDecoderStep)

(***************************************************************************)
(* Properties.                                                             *)
(***************************************************************************)
FOVbBytes == <<70, 79, 86, 98>>

FirstBytes == <<Byte(0), Byte(1), Byte(2), Byte(3)>>

KnownTypes == {X3F_IMAG, X3F_IMA2, X3F_PROP, X3F_CAMF}

HeaderRan == header.status # None

\* C1: a buffer shorter than 232 bytes makes the constructor fail with "X3F
\* file too small", whatever its content, before the byte reader is created
\* and before the header decoder runs.
C1_FileTooSmall ==
    (pc # "new" /\ file.size < 232) =>
        /\ pc = "failed"
        /\ err = [type |-> XPE, msg |-> "X3F file too small"]
        /\ ~bs.created
        /\ header = NoHeader
        /\ result = NoDecoder

C1_Witness ==
    /\ pc = "failed"
    /\ file.size = 231
    /\ FirstBytes = FOVbBytes
    /\ err.msg = "X3F file too small"

\* C2: in a buffer of at least 232 bytes whose first four bytes are not
\* 'F','O','V','b' the header decoder fails with the signature error, having
\* read the signature and the version only, whatever the version is; and
\* isX3f answers true exactly for the buffers that pass the signature check.
C2_BadSignature ==
    /\ (HeaderRan /\ FirstBytes # FOVbBytes) =>
           /\ pc = "failed"
           /\ err = [type |-> XPE, msg |-> "Not an X3f file (Signature)"]
           /\ header.pos = 8
    /\ (HeaderRan /\ FirstBytes = FOVbBytes) =>
           err.msg # "Not an X3f file (Signature)"
    /\ (HeaderRan /\ probe # None) =>
           (probe = "true" <=> err.msg # "Not an X3f file (Signature)")
    /\ (probe # None /\ file.size >= 4) => (probe = "true" <=> FirstBytes = FOVbBytes)

C2_Witness ==
    /\ pc = "failed"
    /\ file.size >= 232
    /\ probe = "false"
    /\ header.version = X3F_VERSION_4_1
    /\ err.msg = "Not an X3f file (Signature)"

\* C3 (as claimed): a header of a version below 4.0 that is decoded takes
\* from the reader 40 bytes below 2.1, 40 + 32 + N + 4N bytes from 2.1 and
\* 32 more from 2.3, N being 64 from 3.0 and 32 below; so 232 bytes for 2.1.
C3_HeaderBytes ==
    (header.status = "ok" /\ U32Lt(header.version, <<4, 0>>)) =>
        LET v == header.version
            N == IF U32Le(<<3, 0>>, v) THEN 64 ELSE 32
        IN  header.pos = IF U32Lt(v, <<2, 1>>) THEN 40
                         ELSE IF U32Lt(v, <<2, 3>>) THEN 40 + 32 + N + 4 * N
                         ELSE 40 + 32 + 32 + N + 4 * N

\* C4 (as claimed): for a version of 4.0 or more the header decoder reads the
\* signature and the version only, the reader ending at 8.
C4_Original ==
    (header.status = "ok" /\ U32Le(<<4, 0>>, header.version)) =>
        /\ header.pos = 8
        /\ header.maxIdx = NothingWritten

\* C4 (amended): for a version of 4.0 or more the header decoder reads the
\* signature, the version and the 16 bytes of the unique identifier, and
\* nothing else: the reader ends at 24 and no other header array is written.
C4_MinimalHeader ==
    (header.status = "ok" /\ U32Le(<<4, 0>>, header.version)) =>
        /\ header.pos = 24
        /\ header.maxIdx = [NothingWritten EXCEPT !["unique_identifier"] = 15]
        /\ pc = "constructed" => bs.pos = 24

C4_Witness ==
    /\ pc = "constructed"
    /\ header.version = X3F_VERSION_4_1
    /\ header.pos = 24

\* C5: getDecoder either returns the decoder, after every directory entry
\* was visited without an error, or an exception leaves it and the caller
\* holds no decoder, whatever was built before the failure.
C5_AllOrNothing ==
    /\ result # NoDecoder =>
           /\ pc = "done"
           /\ err = NoError
           /\ result = decoder
           /\ ~U32Lt(U32(i), dirSec.dirNum)
           /\ Len(entryPos) = i
    /\ pc = "done" => result # NoDecoder
    /\ pc = "failed" => (result = NoDecoder /\ err # NoError)
    /\ pc \in {"new", "constructed", "walk", "crashed"} =>
           (result = NoDecoder /\ err = NoError)

C5_Witness ==
    /\ pc = "failed"
    /\ i >= 1
    /\ decoder # NoDecoder
    /\ decoder[1].images # <<>>
    /\ result = NoDecoder

\* the loop is about to visit an entry of a type that is not known
C6_Case ==
    /\ pc = "walk"
    /\ U32Lt(U32(i), dirSec.dirNum)
    /\ check(bs.pos, 12)
    /\ getU32(bs.pos + 8) \notin KnownTypes

C6_Skipped ==
    /\ pc' = "walk"
    /\ i' = i + 1
    /\ decoder' = decoder
    /\ err' = err
    /\ bs'.pos = bs.pos + 12

C7_EntryPositions ==
    /\ \A k \in DOMAIN entryPos : entryPos[k] = U32Val(dir_loc) + 12 + 12 * (k - 1)
    /\ pc = "walk" => (bs.pos = U32Val(dir_loc) + 12 + 12 * i /\ Len(entryPos) = i)

C7_Witness ==
    /\ pc = "done"
    /\ Len(entryPos) >= 2
    /\ getU32(entryPos[1] + 8) = X3F_PROP
    /\ result[1].props # <<>>
    /\ getU32(entryPos[2] + 8) \in {X3F_IMAG, X3F_IMA2}

\* C8: directory entries are read only under a directory header whose
\* signature is SECd or SECc, whose version is at least 2.0 and whose count
\* is at least 1; any other header ends the parse with its error, no entry
\* read and nothing added to the model.
C8_DirectoryHeader ==
    LET rejected(msg) ==
            /\ pc = "failed"
            /\ err = [type |-> XPE, msg |-> msg]
            /\ entryPos = <<>>
            /\ decoder = <<NewDecoder>>
            /\ result = NoDecoder
        idOk  == dirSec.id \in {X3F_SECd, X3F_SECc}
        verOk == U32Le(<<2, 0>>, dirSec.version)
    IN  /\ entryPos # <<>> =>
               (idOk /\ verOk /\ dirSec.dirNum # NoU32 /\ U32Le(<<0, 1>>, dirSec.dirNum))
        /\ dirSec.id # NoU32 =>
               /\ ~idOk => rejected("Unknown X3F directory identifier")
               /\ (idOk /\ ~verOk) =>
                      rejected("X3F version older than 2.0 is not supported")
               /\ (idOk /\ verOk /\ dirSec.dirNum = <<0, 0>>) =>
                      rejected("X3F directory is empty")

C8_Witness ==
    /\ pc = "failed"
    /\ dirSec.id = X3F_SECc
    /\ dirSec.dirNum = <<0, 0>>
    /\ err.msg = "X3F directory is empty"

\* C9: the directory offset is the little-endian uint32 of the last four
\* bytes of the buffer; when it is not below the buffer length the parse
\* fails with no field of the directory header decoded and no decoder
\* returned.
C9_DirectoryPointer ==
    dir_loc # NoU32 =>
        /\ dir_loc = <<Byte(file.size - 1) * 256 + Byte(file.size - 2),
                       Byte(file.size - 3) * 256 + Byte(file.size - 4)>>
        /\ ~U32Lt(dir_loc, U32(file.size)) =>
               /\ pc = "failed"
               /\ err.type = IOE
               /\ dirSec = NoDirSec
               /\ entryPos = <<>>
               /\ result = NoDecoder

C9_Witness ==
    /\ pc = "failed"
    /\ dir_loc = U32(file.size)
    /\ dirSec = NoDirSec

\* the image descriptors of the IMAG and IMA2 entries, in directory order
C10_Expected ==
    LET at(k)  == U32Val(dir_loc) + 12 + 12 * (k - 1)
        recs   == [k \in 1 .. U32Val(dirSec.dirNum) |-> at(k)]
        img(p) == getU32(p + 8) \in {X3F_IMAG, X3F_IMA2}
        sel    == SelectSeq(recs, img)
    IN  [k \in DOMAIN sel |->
            LET o == U32Val(getU32(sel[k]))
            IN  [id |-> getU32(o), version |-> getU32(o + 4), type |-> getU32(o + 8),
                 format |-> getU32(o + 12), width |-> getU32(o + 16),
                 height |-> getU32(o + 20), dataSize |-> getU32(o + 24)]]

PropCase ==
    /\ pc = "walk"
    /\ U32Lt(U32(i), dirSec.dirNum)
    /\ check(bs.pos, 12)
    /\ getU32(bs.pos + 8) = X3F_PROP
    /\ isValid(getU32(bs.pos), 24)

\* the section of the entry about to be visited: its offset and the fields
\* of its header
PropAt == U32Val(getU32(bs.pos))
PropId == getU32(PropAt)
PropVersion == getU32(PropAt + 4)
PropNum == getU32(PropAt + 8)
PropFormat == getU32(PropAt + 12)

\* its signature is SECp and its version at least 2.0
PropSigned == PropId = Tag(83, 69, 67, 112) /\ U32Le(<<2, 0>>, PropVersion)

\* the properties of the decoder being built
Props == decoder[1].props

\* C11: a PROP section with signature SECp, a version of at least 2.0 and
\* format code 0 whose property count is above 1000 ends the parse with the
\* unreasonable-count error, no property added and no decoder returned; a
\* count of at most 1000 never raises that error, a section of exactly 1000
\* entry records that lie in the buffer is decoded and the parse goes on,
\* and a count of 0 leaves the model as it was and the parse goes on.
C11_PropertyCount ==
    [][(PropCase /\ PropSigned /\ PropFormat = <<0, 0>>) =>
          /\ U32Lt(<<0, 1000>>, PropNum) =>
                 /\ pc' = "failed"
                 /\ err' = [type |-> XPE, msg |-> "Unreasonable number of properties"]
                 /\ decoder'[1].props = Props
                 /\ result' = NoDecoder
          /\ U32Le(PropNum, <<0, 1000>>) =>
                 err'.msg # "Unreasonable number of properties"
          /\ (PropNum = <<0, 1000>> /\ PropAt + 24 + 8 * 1000 <= file.size) =>
                 (pc' = "walk" /\ err' = NoError /\ decoder'[1].props # Props)
          /\ PropNum = <<0, 0>> =>
                 (pc' = "walk" /\ err' = NoError /\ decoder' = decoder)]_vars

C11_Witness ==
    /\ pc = "failed"
    /\ err.msg = "Unreasonable number of properties"
    /\ file.size > 8000
    /\ getU32(U32Val(getU32(entryPos[1])) + 8) = <<0, 1001>>
    /\ decoder[1].props = <<>>

\* C12 (as claimed): a PROP section with signature SECp, a version of at
\* least 2.0 and a format code other than 0 ends the parse with the
\* unsupported-encoding error, whatever its property count is.
C12_Original ==
    [][(PropCase /\ PropSigned /\ PropFormat # <<0, 0>>) =>
          /\ pc' = "failed"
          /\ err' = [type |-> XPE, msg |-> "Unknown property character encoding"]]_vars

\* C12 (amended): such a section ends the parse with the unsupported-encoding
\* error, no property added and no decoder returned, for every property
\* count of at least 1, also above 1000; with a property count of 0 it is
\* accepted as an empty section, the model unchanged and the parse going on.
C12_FormatCode ==
    [][(PropCase /\ PropSigned /\ PropFormat # <<0, 0>>) =>
          IF PropNum = <<0, 0>>
          THEN pc' = "walk" /\ err' = NoError /\ decoder' = decoder
          ELSE /\ pc' = "failed"
               /\ err' = [type |-> XPE, msg |-> "Unknown property character encoding"]
               /\ decoder'[1].props = Props
               /\ result' = NoDecoder]_vars

C12_Witness ==
    /\ pc = "failed"
    /\ err.msg = "Unknown property character encoding"
    /\ Len(entryPos) = 1
    /\ getU32(U32Val(getU32(entryPos[1])) + 8) = <<0, 1001>>
    /\ getU32(U32Val(getU32(entryPos[1])) + 12) = <<65535, 65535>>

\* the section about to be visited passes the checks of its header and its
\* entry records lie in the buffer
GoodPropCase ==
    /\ PropCase
    /\ PropSigned
    /\ PropFormat = <<0, 0>>
    /\ U32Le(<<0, 1>>, PropNum)
    /\ U32Le(PropNum, <<0, 1000>>)
    /\ PropAt + 24 + 8 * U32Val(PropNum) <= file.size

\* where the character data of the section at o starts, and the name and
\* value offsets of its e-th entry record
DataStartOf(o) == o + 24 + 8 * U32Val(getU32(o + 8))
NameOff(o, e) == getU32(o + 24 + 8 * (e - 1))
ValueOff(o, e) == getU32(o + 24 + 8 * (e - 1) + 4)

\* dataStart + 2 * off in 32 bits
Pos32(o, off) == U32Add(U32Add(off, off), U32(DataStartOf(o)))

\* a position with a 2-byte unit in the buffer
InBuffer(u) == file.size >= 2 /\ U32Le(u, U32(file.size - 2))

\* the name and the value of the e-th entry of the section at o are within
\* the buffer
EntryInBuffer(o, e) ==
    InBuffer(Pos32(o, NameOff(o, e))) /\ InBuffer(Pos32(o, ValueOff(o, e)))

EntriesInBuffer(o) == {e \in 1 .. U32Val(getU32(o + 8)) : EntryInBuffer(o, e)}

\* the entries of the section at o whose offsets are within the `length`
\* units that its header declares
EntriesInRegion(o) ==
    {e \in 1 .. U32Val(getU32(o + 8)) :
        U32Lt(NameOff(o, e), getU32(o + 20)) /\ U32Lt(ValueOff(o, e), getU32(o + 20))}

NameOf(o, e) == getString(U32Val(Pos32(o, NameOff(o, e))))

\* C13 (as claimed): the entries of a PROP section whose name or value
\* offset is beyond the character data that the header declares are
\* skipped and the others are decoded, the section never aborted: the names
\* it adds are those of the entries within the declared region.
C13_Original ==
    [][GoodPropCase =>
          /\ pc' = "walk"
          /\ DOMAIN decoder'[1].props =
                 DOMAIN Props \cup {NameOf(PropAt, e) : e \in EntriesInRegion(PropAt)}]_vars

\* C13 (amended): the entries of a PROP section whose name or value
\* position, dataStart + 2 * offset in 32 bits, has no 2-byte unit within
\* the buffer are skipped and the others are decoded, the section never
\* aborted; the declared length is not looked at.  A section of two entries
\* of which one is outside the buffer adds exactly one name.
C13_OutOfBufferSkipped ==
    [][GoodPropCase =>
          /\ pc' = "walk"
          /\ err' = NoError
          /\ DOMAIN decoder'[1].props =
                 DOMAIN Props \cup {NameOf(PropAt, e) : e \in EntriesInBuffer(PropAt)}
          /\ (Props = <<>> /\ PropNum = <<0, 2>>
                  /\ Cardinality(EntriesInBuffer(PropAt)) = 1) =>
                 Cardinality(DOMAIN decoder'[1].props) = 1]_vars

C13_Witness ==
    /\ pc = "done"
    /\ Len(entryPos) = 1
    /\ getU32(entryPos[1] + 8) = X3F_PROP
    /\ getU32(U32Val(getU32(entryPos[1])) + 8) = <<0, 2>>
    /\ NameOff(U32Val(getU32(entryPos[1])), 2) = <<0, 2>>
    /\ ValueOff(U32Val(getU32(entryPos[1])), 2) = U32(file.size)
    /\ DOMAIN result[1].props = {<<75>>}

ValueOf(o, e) == getString(U32Val(Pos32(o, ValueOff(o, e))))

\* the offsets of the PROP entries of the directory, in directory order
PropSections ==
    LET recs    == [k \in 1 .. U32Val(dirSec.dirNum) |-> U32Val(dir_loc) + 12 * k]
        prop(r) == getU32(r + 8) = X3F_PROP
        sel     == SelectSeq(recs, prop)
    IN  [k \in DOMAIN sel |-> U32Val(getU32(sel[k]))]

\* the property entries <<section, index>> that are decoded, in the order
\* of the sections and within a section in the order of its entry records
Occurrences(Decoded(_, _)) ==
    Flatten([s \in DOMAIN PropSections |->
               LET o       == PropSections[s]
                   kept(x) == Decoded(x[1], x[2])
               IN  SelectSeq([e \in 1 .. U32Val(getU32(o + 8)) |-> <<o, e>>], kept)])

\* the map that holds for every name among the occurrences the value of
\* its last occurrence
LastValues(occ, Name(_, _), Value(_, _)) ==
    LET name(k) == Name(occ[k][1], occ[k][2])
    IN  [n \in {name(k) : k \in DOMAIN occ} |->
            LET last == CHOOSE k \in DOMAIN occ :
                            /\ name(k) = n
                            /\ \A j \in (k + 1) .. Len(occ) : name(j) # n
            IN  Value(occ[last][1], occ[last][2])]

\* C14: after a successful parse the property map holds, for every name
\* among the decoded entries of all PROP sections, the value of the last
\* entry of that name, the sections taken in directory order and the
\* entries of a section in the order of their records.
C14_LastWriteWins ==
    pc = "done" =>
        result[1].props = LastValues(Occurrences(EntryInBuffer), NameOf, ValueOf)

C14_Witness ==
    /\ pc = "done"
    /\ Len(PropSections) = 2
    /\ PropSections[1] < PropSections[2]
    /\ DOMAIN result[1].props = {<<75>>, <<76>>}
    /\ result[1].props[<<75>>] = <<87>>
    /\ result[1].props[<<76>>] = <<88>>
    /\ ValueOf(PropSections[1], 1) = <<88>>
    /\ ValueOf(PropSections[2], 1) = <<86>>

(***************************************************************************)
(* Properties of the strings: UTF-8 as the standard defines it.            *)
(***************************************************************************)
\* the j-th UTF-16 code unit from position p, and how many units the
\* buffer holds from p
UnitAt(p, j) == Byte(p + 2 * j) + 256 * Byte(p + 2 * j + 1)
UnitsFrom(p) == (file.size - p) \div 2

\* a zero code unit follows at or after p
Terminated(p) == \E j \in 0 .. (UnitsFrom(p) - 1) : UnitAt(p, j) = 0

\* the code units from p up to the first zero code unit
TextAt(p) ==
    LET n == CHOOSE j \in 0 .. (UnitsFrom(p) - 1) :
                 UnitAt(p, j) = 0 /\ \A k \in 0 .. (j - 1) : UnitAt(p, k) # 0
    IN  [j \in 1 .. n |-> UnitAt(p, j - 1)]

IsHighSurrogate(u) == 55296 <= u /\ u <= 56319
IsLowSurrogate(u) == 56320 <= u /\ u <= 57343

\* the code points of a sequence of code units: a high surrogate and the
\* low surrogate after it are one code point, every other unit is its own
RECURSIVE CodePoints(_)
CodePoints(s) ==
    IF s = <<>> THEN <<>>
    ELSE IF Len(s) >= 2 /\ IsHighSurrogate(s[1]) /\ IsLowSurrogate(s[2])
    THEN <<65536 + (s[1] - 55296) * 1024 + (s[2] - 56320)>>
         \o CodePoints(SubSeq(s, 3, Len(s)))
    ELSE <<s[1]>> \o CodePoints(Tail(s))

\* the UTF-8 bytes of a code point
Utf8Bytes(c) ==
    IF c < 128 THEN <<c>>
    ELSE IF c < 2048 THEN <<192 + (c \div 64), 128 + (c % 64)>>
    ELSE IF c < 65536
    THEN <<224 + (c \div 4096), 128 + ((c \div 64) % 64), 128 + (c % 64)>>
    ELSE <<240 + (c \div 262144), 128 + ((c \div 4096) % 64),
           128 + ((c \div 64) % 64), 128 + (c % 64)>>

\* the text of a sequence of code units: empty when it ends with a high
\* surrogate
Utf8Text(s) ==
    IF s # <<>> /\ IsHighSurrogate(s[Len(s)])
    THEN <<>>
    ELSE LET cps == CodePoints(s)
         IN  Flatten([k \in DOMAIN cps |-> Utf8Bytes(cps[k])])

NamePos(o, e) == U32Val(Pos32(o, NameOff(o, e)))
ValuePos(o, e) == U32Val(Pos32(o, ValueOff(o, e)))

TextOfName(o, e) == Utf8Text(TextAt(NamePos(o, e)))
TextOfValue(o, e) == Utf8Text(TextAt(ValuePos(o, e)))

\* the name and the value of every decoded entry end with a zero code unit
AllTerminated ==
    LET occ == Occurrences(EntryInBuffer)
    IN  \A k \in DOMAIN occ :
            /\ Terminated(NamePos(occ[k][1], occ[k][2]))
            /\ Terminated(ValuePos(occ[k][1], occ[k][2]))

\* C15: the names and values that getString returns for code units followed
\* by a zero code unit are the UTF-8 encoding of the code points of the
\* units before the first zero, a surrogate pair being one code point of 4
\* bytes and every other unit encoded in 1, 2 or 3 bytes by its range; code
\* units that end with a high surrogate give the empty string.
C15_Utf8 ==
    (pc = "done" /\ AllTerminated) =>
        result[1].props = LastValues(Occurrences(EntryInBuffer), TextOfName, TextOfValue)

\* K -> U+00E9 U+1F600, of which the value is a name as well
C15_Witness ==
    /\ pc = "done"
    /\ Len(PropSections) = 1
    /\ Terminated(ValuePos(PropSections[1], 1))
    /\ TextAt(ValuePos(PropSections[1], 1)) = <<233, 55357, 56832>>
    /\ result[1].props[<<75>>] = <<195, 169, 240, 159, 152, 128>>
    /\ result[1].props[<<195, 169, 240, 159, 152, 128>>] = <<75>>

\* the code units from p up to the first zero code unit or, when there is
\* none, up to the end of the buffer
TextToEnd(p) ==
    IF Terminated(p) THEN TextAt(p) ELSE [j \in 1 .. UnitsFrom(p) |-> UnitAt(p, j - 1)]

EndTextOfName(o, e) == Utf8Text(TextToEnd(NamePos(o, e)))
EndTextOfValue(o, e) == Utf8Text(TextToEnd(ValuePos(o, e)))

\* C16 (as claimed): a name or value ends at its first zero code unit or at
\* the end of the buffer, whichever comes first: the properties stored are
\* the texts of the code units up to there, also for a string that no zero
\* code unit ends.
C16_BufferEndTerminated ==
    pc = "done" =>
        result[1].props
            = LastValues(Occurrences(EntryInBuffer), EndTextOfName, EndTextOfValue)

\* dataStart + 2 * off + 2 <= buffer length, in exact integers
FitsExactly(o, off) ==
    /\ DataStartOf(o) + 2 <= file.size
    /\ U32Le(off, U32((file.size - DataStartOf(o) - 2) \div 2))

EntryFitsExactly(o, e) == FitsExactly(o, NameOff(o, e)) /\ FitsExactly(o, ValueOff(o, e))

\* the strings at dataStart + 2 * offset, in exact integers
ExactName(o, e) == getString(DataStartOf(o) + 2 * U32Val(NameOff(o, e)))
ExactValue(o, e) == getString(DataStartOf(o) + 2 * U32Val(ValueOff(o, e)))

\* C17 (as claimed): an entry is decoded only if dataStart + 2 * nameOffset
\* + 2 and dataStart + 2 * valueOffset + 2, as exact integers, are at most
\* the buffer length, and its strings are read from exactly there; every
\* other entry, also one whose offset is 2^31 or more, is dropped.
C17_NoWrapAround ==
    pc = "done" =>
        result[1].props = LastValues(Occurrences(EntryFitsExactly), ExactName, ExactValue)

(***************************************************************************)
(* Properties of the header arrays and of termination.                     *)
(***************************************************************************)
\* C18 (as claimed): every store of the header decoder into an array of
\* X3fHeader has an index inside the array: below 16 for unique_identifier,
\* below 32 for white_balance and color_mode, below 64 for extended_types
\* and extended_data, whatever the version and the buffer are.
C18_HeaderArraysInBounds ==
    HeaderRan =>
        /\ header.maxIdx["unique_identifier"] < 16
        /\ header.maxIdx["white_balance"] < 32
        /\ header.maxIdx["color_mode"] < 32
        /\ header.maxIdx["extended_types"] < 64
        /\ header.maxIdx["extended_data"] < 64

\* C19: getDecoder ends on every buffer, with the decoder returned or with
\* an error.  An iteration of the directory walker that does not fail found
\* its record within the buffer, i below the entry count, and leaves the
\* reader 12 bytes further and i one higher, wherever the offset of the
\* entry points; a PROP section that does not fail has at most 1000 entry
\* records; the walker returns only when i has reached the entry count.
C19_Terminates ==
    /\ [][pc = "walk" =>
             /\ bs.pos = U32Val(dir_loc) + 12 + 12 * i
             /\ bs.pos <= file.size
             /\ pc' = "walk" =>
                    /\ U32Lt(U32(i), dirSec.dirNum)
                    /\ bs.pos + 12 <= file.size
                    /\ i' = i + 1
                    /\ bs'.pos = bs.pos + 12
                    /\ (getU32(bs.pos + 8) = X3F_PROP /\ PropNum # <<0, 0>>) =>
                           U32Le(PropNum, <<0, 1000>>)
             /\ pc' = "done" => dirSec.dirNum = U32(i)
             /\ pc' \in {"walk", "done", "failed"}]_vars
    /\ (pc \in {"constructed", "walk"}) ~> (pc \in {"done", "failed"})

\* an entry count of 2^32 - 1: the walker stopped by the end of the buffer
C19_Witness ==
    /\ pc = "failed"
    /\ err.type = IOE
    /\ dirSec.dirNum = <<65535, 65535>>
    /\ i >= 2
    /\ Len(entryPos) = i + 1
    /\ entryPos[i + 1] + 12 > file.size

====
